---- MODULE Spec2Model ----
(***************************************************************************)
(* Model of scripts/doormon_monitor.py: mDNS discovery of the Doormon      *)
(* device, the poll / report loop of main() and the stdin reader thread.   *)
(*                                                                         *)
(* Times are in tenths of a second (1.0 s = 10).  Python's None, True and  *)
(* False, where a variable can hold any of them, are the strings "None",   *)
(* "True" and "False"; "Other" is any other JSON value (a number, a        *)
(* string, a list ...) a device may send in the "triggered" field.         *)
(***************************************************************************)
EXTENDS Integers, Sequences, FiniteSets, TLC

VARIABLES
    pc,               \* position of the main thread in main() / discover_device()
    now,              \* time.monotonic() as read by discover_device
    deadline,         \* discover_device: deadline
    result_info,      \* discover_device: result["info"], <<>> is None
    browser,          \* ServiceBrowser: "none", "running", "cancelled"
    zc,               \* Zeroconf session: "none", "open", "closed"
    addr,             \* main: addr = (host, port), <<>> before / None
    prev_triggered,   \* main: prev_triggered
    reset_requested,  \* main: reset_requested (threading.Event)
    tpc,              \* input_thread: "unstarted", "readline", "ended"
    triggered,        \* main: triggered (result of the last get_status)
    elapsed,          \* main: elapsed   (result of the last get_status)
    exit_code,        \* process exit status, -1 while running
    out,              \* lines printed in the current poll cycle (or at exit)
    hist              \* history record, read by the properties only

vars == <<pc, now, deadline, result_info, browser, zc, addr, prev_triggered,
          reset_requested, tpc, triggered, elapsed, exit_code, out, hist>>

---------------------------------------------------------------------------
(* Program constants (tenths of a second).                                 *)

SLOW_RESPONSE_THRESHOLD == 30

DISCOVERY_TIMEOUT == 150

DISCOVERY_SLEEP == 2

DEFAULT_PORT == 80

HTTP_OK == 200

IPV4_LEN == 4

\* Python None where an integer is expected (info.port absent).
NonePort == -1

\* exit_code while the process is running.
Running == -1

(* Bounds of the model.                                                    *)

\* time.sleep(0.2) may oversleep by up to MaxJitter tenths.
MaxJitter == 1

\* reset commands counted by the history record saturate here.
MaxCmds == 2

---------------------------------------------------------------------------
(* Characters and strings: a string is a sequence of one-character strings *)

Whitespace == {" ", "\t", "\n", "\r"}

\* str.lower() on the characters the model uses
LowerChar(c) ==
    CASE c = "D" -> "d"
      [] c = "O" -> "o"
      [] c = "R" -> "r"
      [] c = "M" -> "m"
      [] c = "N" -> "n"
      [] c = "E" -> "e"
      [] c = "S" -> "s"
      [] c = "T" -> "t"
      [] OTHER -> c

lower(s) == [i \in 1..Len(s) |-> LowerChar(s[i])]

RECURSIVE lstrip(_)
lstrip(s) == IF s # <<>> /\ Head(s) \in Whitespace THEN lstrip(Tail(s)) ELSE s

RECURSIVE rstrip(_)
rstrip(s) ==
    IF s # <<>> /\ s[Len(s)] \in Whitespace
    THEN rstrip(SubSeq(s, 1, Len(s) - 1))
    ELSE s

strip(s) == rstrip(lstrip(s))

\* Python's  a in b  on strings
Contains(a, b) ==
    \E i \in 0..(Len(b) - Len(a)) : SubSeq(b, i + 1, i + Len(a)) = a

INSTANCE_NAME == <<"D", "o", "o", "r", "m", "o", "n">>

ResetWords == { <<"r">>, <<"r", "e", "s", "e", "t">> }

\* a bug: line.strip() in ("r", "reset"), the case is not folded
IsResetCommandNoLower(line) == strip(line) \in ResetWords

\* line 122: line.strip().lower() in ("r", "reset")
IsResetCommand(line) == lower(strip(line)) \in ResetWords

\* what sys.stdin.readline() may return; <<>> is end of input
Lines ==
    { <<>>,
      <<"\n">>,
      <<"r", "\n">>,
      <<"R", "\n">>,
      <<" ", "r", " ", "\t", "\n">>,
      <<"r", "e", "s", "e", "t", "\n">>,
      <<"R", "e", "S", "E", "T", "\r", "\n">>,
      <<"r", "r", "\n">>,
      <<"r", " ", "r", "\n">>,
      <<"r", "e", "s", "e", "t", "s", "\n">>,
      <<"x", "\n">> }

---------------------------------------------------------------------------
(* Discovery: the advertisements a ServiceBrowser may hand to add_service  *)

NoInfo == [present |-> FALSE]

V4a == <<192, 168, 1, 7>>
V4b == <<10, 0, 0, 9>>
V6a == <<254, 128, 0, 0, 0, 0, 0, 0, 0, 0, 0, 0, 0, 0, 0, 1>>

\* a ServiceInfo: addresses (list; <<>> is empty or missing), whether it has
\* the legacy  address  attribute and its value (<<>> is None), and the port
Info(addresses, hasAddress, address, port) ==
    [present |-> TRUE, addresses |-> addresses, hasAddress |-> hasAddress,
     address |-> address, port |-> port]

NameDoormon == <<"D", "o", "o", "r", "m", "o", "n", ".", "_", "h">>
NameUpper   == <<"M", "y", "D", "O", "O", "R", "M", "O", "N", "2">>
NamePartial == <<"D", "o", "o", "r", ".", "m", "o", "n">>
NamePrinter == <<"p", "r", "n", ".", "_", "h">>

Infos ==
    { NoInfo,
      Info(<<V4a>>, FALSE, <<>>, 8080),
      Info(<<V4b>>, FALSE, <<>>, 0),
      Info(<<V6a, V4b>>, FALSE, <<>>, DEFAULT_PORT),
      Info(<<V6a>>, FALSE, <<>>, 8080),
      Info(<<>>, TRUE, V4b, NonePort),
      Info(<<>>, TRUE, <<>>, 8080),
      Info(<<>>, FALSE, <<>>, 8080) }

Names == {NameDoormon, NameUpper, NamePartial, NamePrinter}

\* socket.inet_ntoa: four bytes to dotted decimal
inet_ntoa(a) == <<a[1], ".", a[2], ".", a[3], ".", a[4]>>

\* lines 51-54: the candidate address list of a ServiceInfo
Addrs(info) ==
    IF info.addresses # <<>>
    THEN info.addresses
    ELSE IF info.hasAddress THEN <<info.address>> ELSE <<>>

\* a bug:  info.port  without the default
PortAsAdvertised(port) == port

\* line 57:  info.port or 80
PortOr80(port) == IF port = 0 \/ port = NonePort THEN DEFAULT_PORT ELSE port

\* lines 55-58: the first address of 4 bytes, if any
RECURSIVE FirstV4(_, _)
FirstV4(addrs, port) ==
    IF addrs = <<>> THEN <<>>
    ELSE IF Head(addrs) # <<>> /\ Len(Head(addrs)) = IPV4_LEN
         THEN <<inet_ntoa(Head(addrs)), PortOr80(port)>>
         ELSE FirstV4(Tail(addrs), port)

\* a bug: the test of lines 42-43 is missing, the last match wins
add_service_last_wins(cur, name, info) ==
    IF ~info.present THEN cur
    ELSE IF ~Contains(lower(INSTANCE_NAME), lower(name)) THEN cur
    ELSE LET found == FirstV4(Addrs(info), info.port)
         IN  IF found # <<>> THEN found ELSE cur

\* lines 41-58: Listener.add_service, as the new value of result["info"]
add_service(cur, name, info) ==
    IF cur # <<>> THEN cur
    ELSE IF ~info.present THEN cur
    ELSE IF ~Contains(lower(INSTANCE_NAME), lower(name)) THEN cur
    ELSE LET found == FirstV4(Addrs(info), info.port)
         IN  IF found # <<>> THEN found ELSE cur

---------------------------------------------------------------------------
(* HTTP: what the device may answer                                        *)

\* an HTTP exchange as urlopen sees it: it raises (connection failure,
\* timeout, HTTPError for 4xx/5xx) or returns a response with a status code
\* and a body
JsonValues == {"True", "False", "None", "Other"}

\* bodies: undecodable bytes, text that is not JSON, a JSON value that is
\* not an object, an object without / with a "triggered" member
Bodies ==
    { [kind |-> "badbytes"], [kind |-> "notjson"], [kind |-> "nonobject"],
      [kind |-> "object", has |-> FALSE, value |-> "None"] }
    \cup { [kind |-> "object", has |-> TRUE, value |-> v] : v \in JsonValues }

StatusResponses ==
    { [raises |-> TRUE, why |-> w] : w \in {"connfail", "timeout", "httperror"} }
    \cup { [raises |-> FALSE, code |-> HTTP_OK, body |-> b] : b \in Bodies }

ResetResponses ==
    { [raises |-> TRUE, why |-> w] : w \in {"connfail", "timeout", "httperror"} }
    \cup { [raises |-> FALSE, code |-> c] : c \in {HTTP_OK, 201, 204} }

ElapsedVals == {29, SLOW_RESPONSE_THRESHOLD, 35}

\* the exception urlopen raises for a failed exchange
UrlopenRaises(why) ==
    CASE why = "connfail" -> "URLError"
      [] why = "timeout" -> "TimeoutError"
      [] why = "httperror" -> "HTTPError"

\* lines 80-84: the exception raised inside get_status's try block, or
\* "none": urlopen's, decode()'s, json.loads's, or obj.get on a value that is
\* not a dict
StatusRaises(resp) ==
    IF resp.raises THEN UrlopenRaises(resp.why)
    ELSE CASE resp.body.kind = "badbytes" -> "UnicodeDecodeError"
           [] resp.body.kind = "notjson" -> "JSONDecodeError"
           [] resp.body.kind = "nonobject" -> "AttributeError"
           [] OTHER -> "none"

\* lines 95-96: the exception raised inside post_reset's try block, or "none"
ResetRaises(resp) == IF resp.raises THEN UrlopenRaises(resp.why) ELSE "none"

\* the classes derived from Exception among the exceptions above
ExceptionSubclasses ==
    {"URLError", "TimeoutError", "HTTPError", "UnicodeDecodeError",
     "JSONDecodeError", "AttributeError"}

\* a bug:  except urllib.error.URLError  (HTTPError derives from URLError)
CaughtUrlErrorOnly(exc) == exc \in {"URLError", "HTTPError"}

\* lines 85, 97:  except Exception
Caught(exc) == exc \in ExceptionSubclasses

\* the exception leaves get_status / post_reset
StatusEscapes(resp) == StatusRaises(resp) # "none" /\ ~Caught(StatusRaises(resp))
ResetEscapes(resp) == ResetRaises(resp) # "none" /\ ~Caught(ResetRaises(resp))

\* lines 74-87: get_status, the value of  triggered  it returns
get_status(resp) ==
    IF StatusRaises(resp) # "none" THEN "None"
    ELSE IF resp.body.has THEN resp.body.value ELSE "False"

\* a bug:  200 <= resp.getcode() < 300
post_reset_any2xx(resp) ==
    IF ResetRaises(resp) # "none" THEN FALSE
    ELSE resp.code >= HTTP_OK /\ resp.code < 300

\* lines 90-98: post_reset
post_reset(resp) ==
    IF ResetRaises(resp) # "none" THEN FALSE ELSE resp.code = HTTP_OK

\* no HTTP exchange observed
NoResp == [raises |-> TRUE, why |-> "none"]

---------------------------------------------------------------------------
(* The history record.  It is written next to the code's own steps and is  *)
(* read by the properties only; no guard and no program variable depends   *)
(* on it.                                                                  *)

Sat(n) == IF n < MaxCmds THEN n + 1 ELSE MaxCmds

\* the fields that describe the cycle in progress, at the start of a cycle
CycleInit ==
    [ prevAtPoll     |-> "None",     \* prev_triggered when the poll was classified
      lastAtPoll     |-> "NoSample", \* lastOutcome when the poll was classified
      resetAtPoll    |-> FALSE,  \* resetSince when the poll was classified
      prevAtReset    |-> "None", \* prev_triggered when post_reset was called
      resetThisCycle |-> "no",   \* "no", "ok", "failed": reset call of this cycle
      callsThisCycle |-> 0,      \* reset HTTP calls started in this cycle
      pollsThisCycle |-> 0,      \* status polls started in this cycle
      lastConsumed   |-> 0,      \* commands taken by this cycle's clear()
      accThis        |-> FALSE,  \* a command of this cycle waits for a clear()
      servedThis     |-> FALSE,  \* a command of this cycle was taken by its clear()
      answeredTwice  |-> FALSE,  \* this cycle's call is the second one made for
                                 \* the commands accepted in the cycle before
      statusResp     |-> NoResp, \* the exchange get_status just returned from
      resetResp      |-> NoResp, \* the exchange post_reset just returned from
      cmdInWindow    |-> FALSE,  \* a command landed between is_set() and clear()
      foldedAccepted |-> FALSE,  \* a command was accepted that is not spelled
                                 \* exactly "r" or "reset" plus a newline
      nearMiss       |-> FALSE ] \* a line that begins with a command and is
                                 \* none was read with the flag clear
                                 \* (both kept until the first poll is sent)

\* no advertisement observed
NoCand == [seen |-> FALSE, name |-> <<>>, info |-> NoInfo]

\* the fields that describe the call of discover_device in progress
DiscInit ==
    [ cand         |-> NoCand, \* the last advertisement handed to add_service
                               \* while result["info"] was None
      skipped      |-> FALSE,  \* add_service returned without storing, result None
      ignored      |-> FALSE,  \* a match with another address came after the first
      acceptedLate |-> FALSE ] \* the match was stored after a clock reading that
                               \* was not before the deadline

HistInit ==
    [ lastOutcome    |-> "NoSample", \* last outcome classified that was not None
      prevOutcome    |-> "NoCycle",  \* outcome of the immediately preceding cycle
      resetSince     |-> FALSE,  \* a reset succeeded since the last such outcome
      polled         |-> FALSE,  \* a status poll was ever issued
      resetCalled    |-> FALSE,  \* a reset call was ever issued
      discoveries    |-> 0,      \* calls of discover_device
      disc           |-> DiscInit,
      firstAccepted  |-> <<>>,   \* the first address add_service stored
      target         |-> <<>>,   \* the address of the last HTTP request
      pending        |-> FALSE,  \* a command was accepted, no reset call started since
      unconsumed     |-> 0,      \* commands accepted since the last clear()
      splitOld       |-> FALSE,  \* the commands of the cycle before fell on both
                                 \* sides of that cycle's clear()
      misjudged      |-> FALSE,  \* a line was read after which the flag was not
                                 \* what the list of commands below says
      cyc            |-> CycleInit ]

Terminal == {"exit1", "done", "crashed"}

PollingPcs ==
    {"is_set", "clear", "post_reset", "post_reset_wait", "get_status",
     "get_status_wait", "classify", "sleep"}

---------------------------------------------------------------------------
Init ==
    /\ pc = "main"
    /\ now = 0
    /\ deadline = 0
    /\ result_info = <<>>
    /\ browser = "none"
    /\ zc = "none"
    /\ addr = <<>>
    /\ prev_triggered = "None"
    /\ reset_requested = FALSE
    /\ tpc = "unstarted"
    /\ triggered = "None"
    /\ elapsed = 0
    /\ exit_code = Running
    /\ out = <<>>
    /\ hist = HistInit

discVars == <<now, deadline, result_info, browser, zc>>
loopVars == <<prev_triggered, reset_requested, triggered, elapsed>>

---------------------------------------------------------------------------
(* discover_device                                                         *)

\* lines 102-103, 38, 63-66: main calls discover_device, which opens the
\* session, starts the browser and computes the deadline
DiscoverStart ==
    /\ pc = "main"
    /\ pc' = "discover_wait"
    /\ out' = <<"Discovering">>
    /\ result_info' = <<>>
    /\ zc' = "open"
    /\ browser' = "running"
    /\ deadline' = now + DISCOVERY_TIMEOUT
    /\ hist' = [hist EXCEPT !.discoveries = @ + 1]
    /\ UNCHANGED <<now, addr, tpc, exit_code>>
    /\ UNCHANGED loopVars

\* the history of one advertisement; what add_service would store for it in
\* an empty result says whether it is a match
HistAdvert(h, name, info) ==
    LET match == add_service(<<>>, name, info)
        first == h.firstAccepted = <<>> /\ match # <<>>
    IN  [h EXCEPT
           !.disc.cand = IF result_info = <<>>
                         THEN [seen |-> TRUE, name |-> name, info |-> info]
                         ELSE @,
           !.disc.skipped = @ \/ (result_info = <<>> /\ match = <<>>),
           !.disc.ignored = @ \/ (h.firstAccepted # <<>> /\ match # <<>>
                                    /\ match # h.firstAccepted),
           !.disc.acceptedLate = @ \/ (first /\ now >= deadline),
           !.firstAccepted = IF first THEN match ELSE @]

\* lines 41-58: the browser's thread calls listener.add_service
AddService ==
    /\ browser = "running"
    /\ \E name \in Names, info \in Infos :
          /\ result_info' = add_service(result_info, name, info)
          /\ hist' = HistAdvert(hist, name, info)
    /\ UNCHANGED <<pc, now, deadline, browser, zc, addr, tpc, exit_code, out>>
    /\ UNCHANGED loopVars

\* line 67: the loop test
WaitMore == result_info = <<>> /\ now < deadline

\* a bug: with a result stored the routine returns straight from the loop
AfterWaitReturnFound(r) ==
    IF r # <<>> THEN "discover_return" ELSE "discover_cancel"

\* lines 67-69: whatever ended the loop, the next statement is line 69; there
\* is no return, break or raise between the loop and browser.cancel()
AfterWait(r) == "discover_cancel"

\* lines 67-68: one test of the loop and, if it passes, one sleep
DiscoverWait ==
    /\ pc = "discover_wait"
    /\ IF WaitMore
       THEN /\ \E j \in 0..MaxJitter : now' = now + DISCOVERY_SLEEP + j
            /\ pc' = "discover_wait"
       ELSE /\ now' = now
            /\ pc' = AfterWait(result_info)
    /\ UNCHANGED <<deadline, result_info, browser, zc, addr, tpc, exit_code, out, hist>>
    /\ UNCHANGED loopVars

\* line 69
DiscoverCancel ==
    /\ pc = "discover_cancel"
    /\ browser' = "cancelled"
    /\ pc' = "discover_close"
    /\ UNCHANGED <<now, deadline, result_info, zc, addr, tpc, exit_code, out, hist>>
    /\ UNCHANGED loopVars

\* line 70
DiscoverClose ==
    /\ pc = "discover_close"
    /\ zc' = "closed"
    /\ pc' = "discover_return"
    /\ UNCHANGED <<now, deadline, result_info, browser, addr, tpc, exit_code, out, hist>>
    /\ UNCHANGED loopVars

\* a bug: the check of line 104 is missing
NotFoundIgnored(a) == FALSE

\* line 104:  if not addr
NotFound(a) == a = <<>>

\* lines 71, 103-110: discover_device returns; main exits or goes on.
\* The clock readings and the deadline are locals of discover_device: they
\* end with the call.
DiscoverReturn ==
    /\ pc = "discover_return"
    /\ addr' = result_info
    /\ IF NotFound(result_info)
       THEN /\ out' = Append(out, "NoDevice")
            /\ exit_code' = 1
            /\ pc' = "exit1"
       ELSE /\ out' = Append(out, "Found")
            /\ exit_code' = exit_code
            /\ pc' = "start"
    /\ now' = 0
    /\ deadline' = 0
    /\ hist' = [hist EXCEPT !.disc = DiscInit]
    /\ UNCHANGED <<result_info, browser, zc, tpc>>
    /\ UNCHANGED loopVars

---------------------------------------------------------------------------
(* main: the input thread                                                  *)

\* lines 112-128
StartThread ==
    /\ pc = "start"
    /\ prev_triggered' = "None"
    /\ reset_requested' = FALSE
    /\ tpc' = "readline"
    /\ pc' = "is_set"
    /\ UNCHANGED <<addr, triggered, elapsed, exit_code, out, hist>>
    /\ UNCHANGED discVars

\* line 123: Event.set()
EventSet(flag) == TRUE

\* the history of one accepted command
HistAccept(h) ==
    [h EXCEPT !.pending = TRUE,
              !.unconsumed = Sat(@),
              !.cyc.accThis = TRUE,
              !.cyc.cmdInWindow = @ \/ pc = "clear"]

\* the lines of Lines that are reset commands, listed by hand
CommandLines ==
    { <<"r", "\n">>,
      <<"R", "\n">>,
      <<" ", "r", " ", "\t", "\n">>,
      <<"r", "e", "s", "e", "t", "\n">>,
      <<"R", "e", "S", "E", "T", "\r", "\n">> }

\* the history of one line read: flagAfter is the flag once the line has been
\* dealt with
HistLine(h, line, flagAfter) ==
    [h EXCEPT
       !.misjudged = @ \/ (flagAfter # (reset_requested \/ line \in CommandLines)),
       !.cyc.foldedAccepted =
           @ \/ (~h.polled /\ flagAfter /\ ~reset_requested
                   /\ line \notin {<<"r", "\n">>, <<"r", "e", "s", "e", "t", "\n">>}),
       !.cyc.nearMiss =
           @ \/ (~h.polled /\ ~flagAfter /\ line \in {<<"r", "r", "\n">>, <<"r", " ", "r", "\n">>,
                                         <<"r", "e", "s", "e", "t", "s", "\n">>})]

\* lines 117-125: one turn of input_thread's loop
InputLine ==
    /\ tpc = "readline"
    /\ exit_code = Running
    /\ \E line \in Lines :
          IF line = <<>>
          THEN /\ tpc' = "ended"
               /\ UNCHANGED <<reset_requested, hist>>
          ELSE /\ tpc' = tpc
               /\ IF IsResetCommand(line)
                  THEN /\ reset_requested' = EventSet(reset_requested)
                       /\ hist' = HistLine(HistAccept(hist), line, reset_requested')
                  ELSE /\ reset_requested' = reset_requested
                       /\ hist' = HistLine(hist, line, reset_requested')
    /\ UNCHANGED <<pc, addr, prev_triggered, triggered, elapsed,
                   exit_code, out>>
    /\ UNCHANGED discVars

---------------------------------------------------------------------------
(* main: the poll loop, lines 130-152                                      *)

\* line 133: Event.clear()
EventClear(flag) == FALSE

\* a bug: the flag is cleared after the reset call instead of before it
FlagClearedAfterCall(flag) == FALSE

\* lines 134-138 do not touch the flag
FlagAfterReset(flag) == flag

\* a bug: a successful reset forgets the state instead of assuming False
PrevAfterResetUnknown(prev, ok) == IF ok THEN "None" ELSE prev

\* a bug: the state is set to False whether or not the reset succeeded
PrevAfterResetAlways(prev, ok) == "False"

\* lines 134-138: prev_triggered after post_reset returned ok
PrevAfterReset(prev, ok) == IF ok THEN "False" ELSE prev

\* lines 135, 138: the line printed after post_reset returned ok
ResetReport(ok) == IF ok THEN "ResetOk" ELSE "ResetFailed"

\* a bug:  while reset_requested.is_set()  instead of  if
AfterResetWhile == "is_set"

\* line 132 is an  if : after the reset block the cycle goes on to the poll
AfterReset == "get_status"

\* line 141:  triggered is None
IsUnreachable(t) == t = "None"

\* a bug:  elapsed >= SLOW_RESPONSE_THRESHOLD
IsSlowOrEqual(e) == e >= SLOW_RESPONSE_THRESHOLD

\* line 144
IsSlow(e) == e > SLOW_RESPONSE_THRESHOLD

\* a bug:  not prev_triggered and triggered is True
EdgeDetectedTruthy(prev, t) == prev \in {"None", "False"} /\ t = "True"

\* a bug:  prev_triggered != triggered and triggered is True
EdgeDetectedAnyChange(prev, t) == prev # t /\ t = "True"

\* a bug:  prev_triggered is not True and triggered is True
EdgeDetectedNotTrue(prev, t) == prev # "True" /\ t = "True"

\* line 146:  prev_triggered is False and triggered is True
EdgeDetected(prev, t) == prev = "False" /\ t = "True"

\* lines 141-147: the lines one classified poll prints
PollReport(prev, t, e) ==
    IF IsUnreachable(t) THEN <<"Error">>
    ELSE (IF IsSlow(e) THEN <<"Slow">> ELSE <<>>)
         \o (IF EdgeDetected(prev, t) THEN <<"Triggered">> ELSE <<>>)

\* a bug: line 148 outside the else, so an Unreachable sample is stored too
PrevAfterPollAlways(prev, t) == t

\* a bug: an Unreachable sample resets the state to unknown
PrevAfterPollForget(prev, t) == IF t = "None" THEN "None" ELSE t

\* lines 141, 148: prev_triggered after one classified poll
PrevAfterPoll(prev, t) == IF IsUnreachable(t) THEN prev ELSE t

\* line 132: the test of the flag
LoopIsSet ==
    /\ pc = "is_set"
    /\ pc' = IF reset_requested THEN "clear" ELSE "get_status"
    /\ UNCHANGED <<addr, tpc, exit_code, out, hist>>
    /\ UNCHANGED loopVars
    /\ UNCHANGED discVars

\* line 133
LoopClear ==
    /\ pc = "clear"
    /\ reset_requested' = EventClear(reset_requested)
    /\ pc' = "post_reset"
    /\ hist' = [hist EXCEPT !.cyc.lastConsumed = hist.unconsumed,
                            !.cyc.servedThis = hist.cyc.accThis,
                            !.cyc.accThis = FALSE,
                            !.unconsumed = 0]
    /\ UNCHANGED <<addr, tpc, prev_triggered, triggered, elapsed,
                   exit_code, out>>
    /\ UNCHANGED discVars

\* line 134, lines 92-95: post_reset sends its one request
PostResetSend ==
    /\ pc = "post_reset"
    /\ pc' = "post_reset_wait"
    /\ hist' = [hist EXCEPT !.target = addr,
                            !.cyc.prevAtReset = prev_triggered,
                            !.cyc.callsThisCycle = @ + 1,
                            !.cyc.answeredTwice = hist.splitOld,
                            !.pending = FALSE,
                            !.resetCalled = TRUE]
    /\ UNCHANGED <<addr, tpc, exit_code, out>>
    /\ UNCHANGED loopVars
    /\ UNCHANGED discVars

\* an exception other than KeyboardInterrupt leaves main: traceback, status 1
Crash ==
    /\ pc' = "crashed"
    /\ out' = Append(out, "Traceback")
    /\ exit_code' = 1

\* lines 95-98, 134-138: post_reset returns and main reports
PostResetReturn ==
    /\ pc = "post_reset_wait"
    /\ \E resp \in ResetResponses :
          IF ResetEscapes(resp)
          THEN /\ Crash
               /\ hist' = [hist EXCEPT !.cyc.resetResp = resp]
               /\ UNCHANGED <<prev_triggered, reset_requested>>
          ELSE /\ prev_triggered' = PrevAfterReset(prev_triggered, post_reset(resp))
               /\ out' = Append(out, ResetReport(post_reset(resp)))
               /\ hist' = [hist EXCEPT
                             !.cyc.resetThisCycle =
                                 IF post_reset(resp) THEN "ok" ELSE "failed",
                             !.cyc.resetResp = resp,
                             !.resetSince = @ \/ post_reset(resp)]
               /\ reset_requested' = FlagAfterReset(reset_requested)
               /\ pc' = AfterReset
               /\ exit_code' = exit_code
    /\ UNCHANGED <<addr, tpc, triggered, elapsed>>
    /\ UNCHANGED discVars

\* line 140, lines 76-80: get_status sends its request
GetStatusSend ==
    /\ pc = "get_status"
    /\ pc' = "get_status_wait"
    /\ hist' = [hist EXCEPT !.target = addr,
                            !.cyc.pollsThisCycle = @ + 1,
                            !.cyc.resetResp = NoResp,
                            !.cyc.foldedAccepted = FALSE,
                            !.cyc.nearMiss = FALSE,
                            !.polled = TRUE]
    /\ UNCHANGED <<addr, tpc, exit_code, out>>
    /\ UNCHANGED loopVars
    /\ UNCHANGED discVars

\* lines 80-87, 140: get_status returns (triggered, elapsed)
GetStatusReturn ==
    /\ pc = "get_status_wait"
    /\ \E resp \in StatusResponses, e \in ElapsedVals :
          /\ hist' = [hist EXCEPT !.cyc.statusResp = resp]
          /\ IF StatusEscapes(resp)
             THEN /\ Crash
                  /\ UNCHANGED <<triggered, elapsed>>
             ELSE /\ triggered' = get_status(resp)
                  /\ elapsed' = e
                  /\ pc' = "classify"
                  /\ UNCHANGED <<exit_code, out>>
    /\ UNCHANGED <<addr, tpc, prev_triggered, reset_requested>>
    /\ UNCHANGED discVars

\* a bug: a  break  after the error line, so an unreachable device ends the loop
AfterClassifyBreakOnError(t) == IF t = "None" THEN "done" ELSE "sleep"

\* lines 141-150: every branch of the classification falls through to the
\* sleep of line 150
AfterClassify(t) == "sleep"

\* lines 141-148
LoopClassify ==
    /\ pc = "classify"
    /\ out' = out \o PollReport(prev_triggered, triggered, elapsed)
    /\ prev_triggered' = PrevAfterPoll(prev_triggered, triggered)
    /\ pc' = AfterClassify(triggered)
    /\ hist' = [hist EXCEPT
                  !.cyc.statusResp = NoResp,
                  !.cyc.prevAtPoll = prev_triggered,
                  !.cyc.lastAtPoll = hist.lastOutcome,
                  !.cyc.resetAtPoll = hist.resetSince,
                  !.lastOutcome = IF triggered = "None" THEN @ ELSE triggered,
                  !.resetSince = IF triggered = "None" THEN @ ELSE FALSE]
    /\ UNCHANGED <<addr, tpc, reset_requested, triggered, elapsed,
                   exit_code>>
    /\ UNCHANGED discVars

\* line 150, and back to line 131: the cycle ends, the next one begins.
\* triggered and elapsed are dead here (line 140 assigns both before they are
\* read again), so the model forgets their values.
LoopSleep ==
    /\ pc = "sleep"
    /\ pc' = "is_set"
    /\ out' = <<>>
    /\ hist' = [hist EXCEPT
                  !.prevOutcome = triggered,
                  !.splitOld = hist.cyc.servedThis /\ hist.cyc.accThis,
                  !.cyc = CycleInit]
    /\ triggered' = "None"
    /\ elapsed' = 0
    /\ UNCHANGED <<addr, tpc, exit_code, prev_triggered, reset_requested>>
    /\ UNCHANGED discVars

\* a bug: the handler sits inside the while loop, so the loop starts over
AfterInterruptRetry == "is_set"

\* lines 130-131, 151-152: the try encloses the while loop, and the handler is
\* the last statement of main
AfterInterrupt == "done"

\* lines 130, 151-152: KeyboardInterrupt anywhere inside the try block
Interrupt ==
    /\ pc \in PollingPcs
    /\ pc' = AfterInterrupt
    /\ out' = Append(out, "Bye")
    /\ exit_code' = 0
    /\ UNCHANGED <<addr, tpc, hist>>
    /\ UNCHANGED loopVars
    /\ UNCHANGED discVars

---------------------------------------------------------------------------
Discovery ==
    \/ DiscoverStart
    \/ DiscoverWait
    \/ DiscoverCancel
    \/ DiscoverClose
    \/ DiscoverReturn

MainLoop ==
    \/ StartThread
    \/ LoopIsSet
    \/ LoopClear
    \/ PostResetSend
    \/ PostResetReturn
    \/ GetStatusSend
    \/ GetStatusReturn
    \/ LoopClassify
    \/ LoopSleep

Next ==
    \/ Discovery
    \/ AddService
    \/ MainLoop
    \/ InputLine
    \/ Interrupt

Spec == Init /\ [][Next]_vars

\* the main thread is scheduled: it takes its next step as long as it has one
FairSpec == Spec /\ WF_vars(Discovery) /\ WF_vars(MainLoop)

---------------------------------------------------------------------------
(* Properties.  pc = "sleep" is the state right after the poll of a cycle  *)
(* was classified (lines 141-148): out holds what the cycle printed,       *)
(* triggered its outcome, hist.cyc what the code's variables held when the *)
(* poll was classified.                                                    *)

Printed(e) == \E i \in 1..Len(out) : out[i] = e

Count(e) == Cardinality({i \in 1..Len(out) : out[i] = e})

Classified == pc = "sleep"

\* C1: in every cycle "Triggered!" is printed if and only if prev_triggered
\* was False when the poll was classified and the outcome is True; after a
\* cycle whose outcome is True or False, prev_triggered equals the outcome.
C1_EdgeIffPrevFalse ==
    Classified =>
        /\ Printed("Triggered") <=>
              (hist.cyc.prevAtPoll = "False" /\ triggered = "True")
        /\ triggered \in {"True", "False"} => prev_triggered = triggered

\* a cycle that printed the event, and one that stored the outcome without it
C1_Witness ==
    /\ Classified
    /\ Printed("Triggered")
    /\ hist.cyc.prevAtPoll = "False"
    /\ prev_triggered = "True"

\* C2 as stated: the event is printed exactly once per False -> True edge of
\* the sequence of outcomes (Unreachable samples skipped), whatever resets
\* happen in between, and never while the outcome stays True.
C2_OncePerOutcomeEdge ==
    Classified =>
        /\ Printed("Triggered") <=>
              (hist.cyc.lastAtPoll = "False" /\ triggered = "True")
        /\ Count("Triggered") <= 1

\* C2 amended: the event is printed exactly once for each True outcome whose
\* baseline is False: the last outcome that was not Unreachable was False
\* and no reset succeeded since, or a reset succeeded since that outcome
\* (or since the start).  Without a successful reset in between it is never
\* printed while the outcome stays True.
C2_OncePerEdgeOrReset ==
    Classified =>
        /\ Printed("Triggered") <=>
              /\ triggered = "True"
              /\ \/ hist.cyc.resetAtPoll
                 \/ hist.cyc.lastAtPoll = "False"
        /\ Count("Triggered") <= 1

\* the outcome stays True, a reset succeeded in between, the event is printed
C2_Witness ==
    /\ Classified
    /\ hist.cyc.lastAtPoll = "True"
    /\ hist.cyc.resetAtPoll
    /\ triggered = "True"
    /\ Count("Triggered") = 1

FirstSample == Classified /\ hist.cyc.lastAtPoll = "NoSample" /\ triggered # "None"

\* C3 as stated: the event is never printed on the first sample that is not
\* Unreachable, also when a reset succeeded before it.
C3_NeverOnFirstSample == FirstSample => ~Printed("Triggered")

\* C3 amended: on the first sample that is not Unreachable the event is
\* printed only when a reset succeeded before that sample and the sample is
\* True; with no successful reset before it, it is never printed.
C3_FirstSampleUnlessReset ==
    FirstSample =>
        (Printed("Triggered") <=> (hist.cyc.resetAtPoll /\ triggered = "True"))

\* a first sample of True with no reset before it: nothing printed
C3_Witness ==
    /\ FirstSample
    /\ triggered = "True"
    /\ ~hist.cyc.resetAtPoll
    /\ ~hist.resetCalled
    /\ ~Printed("Triggered")

\* C4 as stated: no cycle that follows an Unreachable cycle, and no cycle
\* whose own outcome is Unreachable, prints the event.
C4_NeverNextToUnreachable ==
    Classified /\ (hist.prevOutcome = "None" \/ triggered = "None")
        => ~Printed("Triggered")

\* C4 amended: no cycle whose own outcome is Unreachable prints the event.
\* A cycle that follows an Unreachable cycle prints it exactly when its
\* outcome is True and the baseline kept across the Unreachable cycle is
\* False (the last outcome that was not Unreachable was False, or a reset
\* succeeded since); so it never prints it when only Unreachable cycles and
\* no successful reset came before.
C4_UnreachableKeepsBaseline ==
    Classified =>
        /\ triggered = "None" => ~Printed("Triggered")
        /\ hist.prevOutcome = "None" =>
              (Printed("Triggered") <=>
                  /\ triggered = "True"
                  /\ \/ hist.cyc.resetAtPoll
                     \/ hist.cyc.lastAtPoll = "False")

\* True right after an Unreachable cycle, nothing known before: not printed
C4_Witness ==
    /\ Classified
    /\ hist.prevOutcome = "None"
    /\ hist.cyc.lastAtPoll = "NoSample"
    /\ triggered = "True"
    /\ ~Printed("Triggered")

\* C5: a poll classified as Unreachable leaves prev_triggered as it was and
\* prints the unreachable line only; so when the last outcome that was not
\* Unreachable was False, the cycle before was Unreachable and the outcome
\* is True, the event is printed.
C5_UnreachableFrame ==
    Classified =>
        /\ triggered = "None" =>
              /\ prev_triggered = hist.cyc.prevAtPoll
              /\ Count("Error") = 1
              /\ ~Printed("Slow")
              /\ ~Printed("Triggered")
        /\ ( /\ hist.cyc.lastAtPoll = "False"
             /\ hist.prevOutcome = "None"
             /\ triggered = "True" ) => Printed("Triggered")

\* False, then Unreachable, then True, no reset call at all: printed
C5_Witness ==
    /\ Classified
    /\ hist.cyc.lastAtPoll = "False"
    /\ hist.prevOutcome = "None"
    /\ triggered = "True"
    /\ ~hist.resetCalled
    /\ Printed("Triggered")

\* C6 as stated: after a reset that succeeded, prev_triggered is False when
\* the poll of that cycle is classified, and the event is printed again only
\* after a False sample was observed following the reset.
C6_ReportedOnlyAfterFalseSample ==
    Classified =>
        /\ hist.cyc.resetThisCycle = "ok" => hist.cyc.prevAtPoll = "False"
        /\ Printed("Triggered") =>
              (hist.cyc.lastAtPoll = "False" /\ ~hist.cyc.resetAtPoll)

\* C6 amended: after a reset that succeeded, prev_triggered is False when the
\* poll of that cycle is classified, whatever it was before; the first
\* outcome after the reset that is not Unreachable is then compared with
\* that False baseline, so it prints the event if and only if it is True, in
\* the cycle of the reset already, with no False sample needed in between.
C6_ResetSetsFalseBaseline ==
    Classified =>
        /\ hist.cyc.resetThisCycle = "ok" => hist.cyc.prevAtPoll = "False"
        /\ hist.cyc.resetAtPoll =>
              /\ hist.cyc.prevAtPoll = "False"
              /\ Printed("Triggered") <=> triggered = "True"

\* the state was True, the reset succeeded, the poll of the same cycle is
\* True again: the event is printed
C6_Witness ==
    /\ Classified
    /\ hist.cyc.resetThisCycle = "ok"
    /\ hist.cyc.prevAtReset = "True"
    /\ hist.cyc.lastAtPoll = "True"
    /\ triggered = "True"
    /\ Printed("Triggered")

\* C7: when post_reset fails the reset-failed line is printed, prev_triggered
\* is as it was when the call was made, the loop does not set the flag again
\* (it is set only while a command accepted after the clear() is waiting, and
\* every reset call follows a clear() that took at least one command), and
\* the cycle goes on to its status poll.
C7_FailedResetKeepsState ==
    /\ hist.cyc.resetThisCycle = "failed" =>
          /\ Count("ResetFailed") = 1
          /\ ~Printed("ResetOk")
          /\ pc \in {"get_status", "get_status_wait", "classify", "sleep", "done"}
          /\ pc = "get_status" => prev_triggered = hist.cyc.prevAtReset
          /\ pc \in {"classify", "sleep"} =>
                (hist.cyc.prevAtPoll = hist.cyc.prevAtReset \/ pc = "classify")
          /\ pc \in {"classify", "sleep"} => hist.cyc.pollsThisCycle = 1
          /\ reset_requested => hist.unconsumed > 0
    /\ hist.cyc.callsThisCycle > 0 => hist.cyc.lastConsumed > 0

\* the state was True, the reset failed, the poll was made and classified
\* with the state still True
C7_Witness ==
    /\ Classified
    /\ hist.cyc.resetThisCycle = "failed"
    /\ hist.cyc.prevAtReset = "True"
    /\ hist.cyc.prevAtPoll = "True"
    /\ hist.cyc.pollsThisCycle = 1
    /\ ~reset_requested

\* C8 as stated: at most one reset call per cycle, and the commands accepted
\* within one cycle are answered by one reset call, wherever the set() of
\* the flag falls with respect to the loop's is_set() and clear().
C8_OneCallPerCycleOfCommands ==
    /\ hist.cyc.callsThisCycle <= 1
    /\ ~hist.cyc.answeredTwice

\* C8 amended: at most one reset call per cycle; the commands accepted
\* between one clear() of the flag and the next are taken together by that
\* next clear(), which is followed by one reset call.  (Two commands of one
\* cycle that fall on either side of the cycle's clear() get two calls: this
\* cycle's and the next cycle's.)
C8_CoalescePerClear ==
    pc \in PollingPcs =>
        /\ hist.cyc.callsThisCycle <= 1
        /\ reset_requested <=> hist.unconsumed > 0
        /\ pc = "clear" => hist.cyc.callsThisCycle = 0
        /\ pc = "post_reset" =>
              hist.cyc.callsThisCycle = 0 /\ hist.cyc.lastConsumed > 0
        /\ hist.cyc.callsThisCycle = 1 => hist.cyc.lastConsumed > 0
        /\ pc \notin {"is_set", "clear", "post_reset"} /\ hist.cyc.lastConsumed > 0
              => hist.cyc.callsThisCycle = 1

\* two commands taken by one clear(), one reset call made for them
C8_Witness ==
    /\ pc = "get_status"
    /\ hist.cyc.lastConsumed >= 2
    /\ hist.cyc.callsThisCycle = 1
    /\ ~reset_requested

\* C9: no reset request is lost: every accepted command is followed by a
\* reset call that starts after it was accepted, unless the loop is
\* interrupted first; until that call starts the flag stays set, or the
\* loop stands between its clear() and the call.
C9_NoLostReset ==
    /\ [](hist.pending => reset_requested \/ pc = "post_reset" \/ pc = "done")
    /\ hist.pending ~> (~hist.pending \/ pc = "done")

\* a command landed between the loop's is_set() and clear(), and the reset
\* call of that cycle started after it
C9_Witness ==
    /\ hist.cyc.cmdInWindow
    /\ pc = "post_reset_wait"
    /\ hist.cyc.callsThisCycle = 1
    /\ ~hist.pending

\* C10: when discovery ends without a match the process prints the
\* diagnostic and exits with status 1 and has issued no poll and no reset
\* call and has not started the input thread; it stops there; discovery is
\* run once; and the loop is entered only with an address.
C10_DiscoveryFailureIsFatal ==
    /\ pc = "exit1" =>
          /\ addr = <<>>
          /\ exit_code = 1
          /\ out = <<"Discovering", "NoDevice">>
          /\ ~hist.polled
          /\ ~hist.resetCalled
          /\ tpc = "unstarted"
          /\ ~ENABLED Next
    /\ hist.discoveries <= 1
    /\ pc \in PollingPcs \cup {"start", "done"} => addr # <<>>
    /\ (hist.polled \/ hist.resetCalled \/ tpc # "unstarted") => addr # <<>>
    /\ pc = "discover_return" /\ result_info = <<>> => hist.discoveries = 1

\* the process ended after a discovery that found nothing
C10_Witness ==
    /\ pc = "exit1"
    /\ exit_code = 1
    /\ result_info = <<>>
    /\ zc = "closed"

\* C11: in every cycle the slow-response line is printed if and only if the
\* outcome is not Unreachable and elapsed is strictly greater than 3.0 s
\* (3.5 s prints, 2.9 s and 3.0 s do not), whatever prev_triggered is and
\* whether or not the event is printed too; an Unreachable cycle prints the
\* unreachable line only, however long the poll took.
C11_SlowIffOverThreshold ==
    Classified =>
        /\ Printed("Slow") <=> (triggered # "None" /\ elapsed \in {35})
        /\ elapsed \in {29, 30} => ~Printed("Slow")
        /\ Count("Slow") <= 1
        /\ triggered = "None" =>
              /\ Printed("Error")
              /\ ~Printed("Slow")
              /\ ~Printed("Triggered")
        /\ triggered # "None" => ~Printed("Error")

\* the first sample of a run, 3.5 s, after a reset: both lines in one cycle
C11_Witness ==
    /\ Classified
    /\ hist.cyc.lastAtPoll = "NoSample"
    /\ elapsed = 35
    /\ Printed("Slow")
    /\ Printed("Triggered")

\* the exchange get_status has just returned from, in the state it returns to
StatusSeen == hist.cyc.statusResp

\* C12: get_status never raises on a request failure: a connection failure,
\* a timeout, an HTTP error status, a body that is not JSON and a JSON body
\* that is not an object all give None with the elapsed time; a parsed
\* object gives its "triggered" member, and False when it has none.
C12_GetStatusTotal ==
    /\ pc # "crashed"
    /\ (pc = "classify" /\ StatusSeen # NoResp) =>
          /\ elapsed \in ElapsedVals
          /\ StatusSeen.raises => triggered = "None"
          /\ ~StatusSeen.raises =>
                /\ StatusSeen.body.kind \in {"badbytes", "notjson", "nonobject"}
                      => triggered = "None"
                /\ (StatusSeen.body.kind = "object" /\ StatusSeen.body.has)
                      => triggered = StatusSeen.body.value
                /\ (StatusSeen.body.kind = "object" /\ ~StatusSeen.body.has)
                      => triggered = "False"

\* a JSON body that is not an object was answered with None
C12_Witness ==
    /\ pc = "classify"
    /\ ~StatusSeen.raises
    /\ StatusSeen.body.kind = "nonobject"
    /\ triggered = "None"
    /\ elapsed = 35

\* the exchange post_reset has just returned from
ResetSeen == hist.cyc.resetResp

\* C13: post_reset returns true if and only if the response status code is
\* exactly 200; any other code (other 2xx included) and any error gives
\* false; one request is sent per call; no exception leaves it.
C13_ResetTrueIff200 ==
    /\ pc # "crashed"
    /\ hist.cyc.callsThisCycle <= 1
    /\ ResetSeen # NoResp =>
          /\ hist.cyc.callsThisCycle = 1
          /\ hist.cyc.resetThisCycle = "ok" <=>
                (~ResetSeen.raises /\ ResetSeen.code = 200)
          /\ hist.cyc.resetThisCycle = "failed" <=>
                (ResetSeen.raises \/ ResetSeen.code \in {201, 204})
          /\ Printed("ResetOk") <=> hist.cyc.resetThisCycle = "ok"

\* status 204: the call returned false after its one request
C13_Witness ==
    /\ pc = "get_status"
    /\ ~ResetSeen.raises
    /\ ResetSeen.code = 204
    /\ hist.cyc.resetThisCycle = "failed"
    /\ hist.cyc.callsThisCycle = 1
    /\ Printed("ResetFailed")

DiscoveryPcs == {"discover_wait", "discover_cancel", "discover_close", "discover_return"}

\* C14: first found wins: once add_service has stored an address, later
\* advertisements leave it as it is; discover_device returns that address,
\* and every poll and reset request is sent to it.
C14_FirstFoundWins ==
    /\ hist.firstAccepted # <<>> => result_info = hist.firstAccepted
    /\ pc \notin DiscoveryPcs /\ pc # "main" => addr = hist.firstAccepted
    /\ hist.target # <<>> => hist.target = hist.firstAccepted
    /\ (hist.polled \/ hist.resetCalled) => hist.target # <<>>

\* a match with another address arrived after the first one, which is kept
C14_Witness ==
    /\ pc = "discover_return"
    /\ hist.disc.ignored
    /\ result_info = <<inet_ntoa(V4b), DEFAULT_PORT>>
    /\ hist.firstAccepted = result_info

\* the names of Names that contain "doormon", whatever the case
MatchingNames == {NameDoormon, NameUpper}

\* the first 4-byte address an advertisement carries, <<>> if it has none
OracleAddress(info) ==
    LET as == Addrs(info)
        v4 == {i \in 1..Len(as) : Len(as[i]) = 4}
    IN  IF v4 = {} THEN <<>>
        ELSE as[CHOOSE i \in v4 : \A j \in v4 : i <= j]

\* C15: add_service, called with no result stored yet, stores an address
\* only for an advertisement whose records could be fetched, whose name
\* contains "Doormon" in any case and which carries a 4-byte address: the
\* first such address, with the advertised port, or 80 when that is zero or
\* absent.  Any other advertisement leaves the result None, so a later
\* match is accepted.
C15_AcceptsOnlyMatches ==
    (pc \in DiscoveryPcs /\ hist.disc.cand.seen) =>
        LET c == hist.disc.cand
            good == /\ c.info.present
                    /\ c.name \in MatchingNames
                    /\ OracleAddress(c.info) # <<>>
            port == IF c.info.port \in {0, NonePort} THEN 80 ELSE c.info.port
        IN  /\ ~good => result_info = <<>>
            /\ good => result_info = <<inet_ntoa(OracleAddress(c.info)), port>>

\* advertisements were skipped, then one in capitals with an IPv6 and an IPv4
\* address was accepted
C15_Witness ==
    /\ pc = "discover_return"
    /\ hist.disc.skipped
    /\ hist.disc.cand.name = NameUpper
    /\ hist.disc.cand.info.addresses = <<V6a, V4b>>
    /\ result_info = <<inet_ntoa(V4b), 80>>

---------------------------------------------------------------------------
\* the positions of main from which discover_device has returned
Returned == pc \notin {"main", "discover_wait", "discover_cancel", "discover_close"}

---------------------------------------------------------------------------
\* C17: at every position of the poll loop an interrupt can be taken; the
\* step that prints the farewell leaves the loop for good with exit status
\* 0, starts no poll and no reset call and leaves the input thread where it
\* is; the program ends with status 0 only this way, and after it nothing
\* more happens.
C17_InterruptEndsPolling ==
    /\ [](pc \in PollingPcs => ENABLED Interrupt)
    /\ [][out' = Append(out, "Bye") =>
            /\ pc \in PollingPcs
            /\ pc' = "done"
            /\ exit_code' = 0
            /\ tpc' = tpc
            /\ hist' = hist
            /\ addr' = addr]_vars
    /\ [](pc = "done" => exit_code = 0 /\ out[Len(out)] = "Bye")
    /\ [](exit_code = 0 => pc = "done")
    /\ [][pc # "done"]_vars

\* the interrupt came while a reset call was in flight, with the input thread
\* still blocked on standard input
C17_Witness ==
    /\ pc = "done"
    /\ exit_code = 0
    /\ tpc = "readline"
    /\ hist.cyc.callsThisCycle = 1
    /\ hist.cyc.resetThisCycle = "no"
    /\ hist.cyc.pollsThisCycle = 0

---------------------------------------------------------------------------
\* C18: after every line the input thread reads, the flag is set if it was
\* set before or the line is a reset command ("r" or "reset" in any case,
\* with any surrounding whitespace), and clear otherwise.  A step that sets
\* the flag is a step of the input thread and changes no variable of main;
\* the thread's last step changes nothing but its own position; the flag is
\* cleared by line 133 of the poll loop only.
C18_FlagIffResetCommand ==
    /\ [](~hist.misjudged)
    /\ [][~reset_requested /\ reset_requested' =>
            /\ tpc = "readline" /\ tpc' = "readline"
            /\ <<pc, addr, prev_triggered, triggered, elapsed, exit_code, out>>'
                 = <<pc, addr, prev_triggered, triggered, elapsed, exit_code, out>>]_vars
    /\ [][tpc = "readline" /\ tpc' = "ended" =>
            <<pc, addr, prev_triggered, reset_requested, triggered, elapsed,
              exit_code, out>>'
              = <<pc, addr, prev_triggered, reset_requested, triggered, elapsed,
                  exit_code, out>>]_vars
    /\ [][reset_requested /\ ~reset_requested' =>
            pc = "clear" /\ pc' = "post_reset"]_vars

\* before the first poll a line that only begins with a command was read and
\* left the flag clear, then a command in capitals or with blanks around it
\* set it
C18_Witness ==
    /\ reset_requested
    /\ hist.cyc.nearMiss
    /\ hist.cyc.foldedAccepted
    /\ pc = "is_set"

---------------------------------------------------------------------------
\* the order of the statements of one cycle, lines 132-150
CycleOrder ==
    { <<"is_set", "clear">>, <<"is_set", "get_status">>,
      <<"clear", "post_reset">>, <<"post_reset", "post_reset_wait">>,
      <<"post_reset_wait", "get_status">>,
      <<"get_status", "get_status_wait">>, <<"get_status_wait", "classify">>,
      <<"classify", "sleep">>, <<"sleep", "is_set">> }

\* C19: once in the poll loop the program leaves it only by the interrupt's
\* step, whatever the polls and reset calls returned; the main thread's steps
\* follow the order of one cycle, with at most one reset call and exactly one
\* status poll between two sleeps; from every position of the loop, the wait
\* for a poll's answer included, the program eventually comes to send the
\* next status poll unless an interrupt ends it, also after the input thread
\* has ended.
C19_LoopSurvivesFailures ==
    /\ [][(pc \in PollingPcs /\ pc' \notin PollingPcs) =>
            pc' = "done" /\ out' = Append(out, "Bye")]_vars
    /\ [][(pc \in PollingPcs /\ pc' \in PollingPcs /\ pc' # pc) =>
            <<pc, pc'>> \in CycleOrder]_vars
    /\ [](pc \in PollingPcs =>
            /\ hist.cyc.callsThisCycle <= 1
            /\ hist.cyc.pollsThisCycle <= 1
            /\ pc \in {"get_status_wait", "classify", "sleep"}
                  <=> hist.cyc.pollsThisCycle = 1)
    /\ [][tpc = "readline" /\ tpc' = "ended" => pc' = pc /\ exit_code' = exit_code]_vars
    /\ (pc \in PollingPcs \ {"get_status"}) ~> (pc = "get_status" \/ pc = "done")

\* a status poll is sent in the cycle after one whose poll was Unreachable,
\* after a reset call that failed in this cycle, with the input thread ended
C19_Witness ==
    /\ pc = "get_status_wait"
    /\ tpc = "ended"
    /\ hist.prevOutcome = "None"
    /\ hist.cyc.resetThisCycle = "failed"

---------------------------------------------------------------------------
\* discover_device comes to its return statement, with the main thread scheduled
DiscoveryTerminates == (pc = "discover_wait") ~> (pc = "discover_return")

\* C20: discover_device returns an address only if the match was accepted
\* before the deadline elapsed; a match accepted once the clock has reached
\* the deadline is not returned, the routine returns None.
C20_NotFoundPastDeadline ==
    (pc = "discover_return" /\ hist.disc.acceptedLate) => result_info = <<>>

\* the loop ended on the deadline with no result, an advertisement was handed
\* to add_service before browser.cancel(), and its address is returned
C20_Witness ==
    /\ pc = "discover_return"
    /\ now >= deadline
    /\ hist.disc.acceptedLate
    /\ result_info # <<>>

====
